---------------------------- MODULE Spec2Model ----------------------------
(***************************************************************************)
(* Model of presentation/create_pptx.py: the deck builder make() and its   *)
(* helpers add_title, add_footer, add_bullets, kpi_card, arrow, flow_box.  *)
(*                                                                         *)
(* make() is a straight-line script.  Each statement of make() is one      *)
(* entry of Program, executed by the action named after the call it makes. *)
(* Lengths are English Metric Units (EMU), the integers the presentation   *)
(* library stores.  Non-ASCII characters of the source literals are        *)
(* written as their \uXXXX escapes: u2022 is the bullet, u2192 the arrow,  *)
(* u2011 the non-breaking hyphen, u2014 the em dash.                       *)
(***************************************************************************)
EXTENDS Integers, Sequences, FiniteSets, TLC

VARIABLES
    run,        \* number of the current invocation of the script
    pc,         \* index in Program of the next statement of make()
    outcome,    \* "running", "done" (make() returned) or "aborted" (uncaught exception)
    error,      \* the exception raised in this run, "none" when there is none
    prs,        \* the in-memory presentation: slide size and slides
    s,          \* the local variable s of make(): index of the slide it names, 0 = unbound
    locals,     \* the box variables of make() (b1, cA, step1, ...): name -> <<slide, shape>> index
    ROOT,       \* the directory that holds the script, an absolute path (line 12)
    fs,         \* the files the script touches: path -> "absent" or content
    writable,   \* whether the output path can be opened for writing
    stdout,     \* lines printed by this run
    writes,     \* history: number of times this run opened the output file and wrote to it
    out_before, \* history: content of the output path when this run started
    saved       \* history: the decks saved by the runs so far, in order, each with
                \* the asset files its run found

vars == <<run, pc, outcome, error, prs, s, locals, ROOT, fs, writable, stdout,
          writes, out_before, saved>>

-----------------------------------------------------------------------------
(* Bounds *)

\* Number of times the script is run in a row.
MaxRuns == 2

-----------------------------------------------------------------------------
(* Paths and theme colors (lines 12-25) *)

\* Directories the script may be installed in.  ROOT is
\* Path(__file__).resolve().parent, so it is always absolute.
Roots == {"/srv/selenium_TestNg_autohealer/presentation",
          "/root/workspace/validation/repo/presentation"}

\* Path / name
Join(dir, name) == dir \o "/" \o name

ASSETS == Join(ROOT, "assets")
OUT == Join(ROOT, "Selenium_Automation_Framework_AI_Healing.pptx")

cover == Join(ASSETS, "cover.png")
arch == Join(ASSETS, "architecture.png")
heal == Join(ASSETS, "ai-healing.png")

\* The value of the path variable that a statement of make() names.
PathOf(name) ==
    CASE name = "cover" -> cover
      [] name = "arch" -> arch
      [] name = "heal" -> heal
      [] name = "OUT" -> OUT

AssetPaths == {cover, arch, heal}
Paths == AssetPaths \cup {OUT}

INK == "EAF2FF"
MUTED == "BECDE6"
BG == "0B1020"
C1 == "6EE7FF"
C2 == "A78BFA"
C3 == "34D399"
C4 == "F59E0B"
NAVY == "020617"
WHITE == "FFFFFF"

-----------------------------------------------------------------------------
(* Lengths: pptx.util.Inches and Pt as the script uses them *)

\* Inches(x) is int(x * 914400) computed in IEEE double arithmetic.  The
\* argument here is x in thousandths of an inch.  For every literal of the
\* script the double product truncates to the exact quotient, except 4.1
\* and 8.2, whose products fall just below the integer (3749039, 7498079).
Inches(milli) ==
    (milli * 9144) \div 10 - (IF milli \in {4100, 8200} THEN 1 ELSE 0)

Pt(points) == points * 12700

-----------------------------------------------------------------------------
(* Text: strings, runs, line breaks, paragraphs, text frames *)

(* A string is written as the sequence of its tokens: the line breaks it
   holds, "\n" (line feed) and "\v" (vertical tab, written "\\v" here), and
   the non-empty segments between them.  The empty string is <<>>, "x" is
   <<"x">>, "x\ny" is <<"x", "\n", "y">>.  No two segments are adjacent. *)
LF == "\n"
VT == "\\v"
IsBreak(tok) == tok \in {LF, VT}

\* The string of a text without line breaks.
Str(seg) == IF seg = "" THEN <<>> ELSE <<seg>>

\* Adjacent segments are one segment.
RECURSIVE Normalize(_)
Normalize(toks) ==
    IF Len(toks) < 2 THEN toks
    ELSE IF IsBreak(toks[1]) \/ IsBreak(toks[2])
         THEN <<toks[1]>> \o Normalize(Tail(toks))
         ELSE Normalize(<<toks[1] \o toks[2]>> \o Tail(Tail(toks)))

\* run.text = text: the library keeps a line feed in the run and escapes
\* a vertical tab as _x000B_.
run_text(text) ==
    Normalize([i \in DOMAIN text |-> IF text[i] = VT THEN "_x000B_" ELSE text[i]])

\* A run as p.add_run() leaves it: no text, size, bold and color unset.
NewRun == [kind |-> "r", text |-> <<>>, size |-> 0, bold |-> "None", color |-> "inherit"]

\* A line break element of a paragraph.
LineBreak == [NewRun EXCEPT !.kind = "br"]

\* line 28-32
_set_text(r, text, size, bold, color) ==
    [r EXCEPT !.text = run_text(text), !.size = Pt(size),
              !.bold = IF bold THEN "True" ELSE "False", !.color = color]

\* A paragraph: its properties and its content, runs and line breaks.
NewParagraph(algn) ==
    [alignment |-> algn, level |-> 0, font_size |-> 0, font_color |-> "inherit",
     content |-> <<>>]

\* tf.clear(): one paragraph is left, without content, its properties kept.
tf_clear(tf) == <<[tf[1] EXCEPT !.content = <<>>]>>

\* tf.add_paragraph()
tf_add_paragraph(tf) == Append(tf, NewParagraph("inherit"))

\* p.add_run() followed by _set_text on the new run
p_add_run(p, text, size, bold, color) ==
    [p EXCEPT !.content = Append(@, _set_text(NewRun, text, size, bold, color))]

\* The content that p.text = text gives a paragraph: the text is split at
\* its line breaks, each break becomes a line break element and each
\* non-empty segment a run that inherits its font.  The empty string gives
\* no run at all.
RECURSIVE append_text(_)
append_text(text) ==
    IF text = <<>> THEN <<>>
    ELSE (IF IsBreak(text[1]) THEN <<LineBreak>>
          ELSE <<[NewRun EXCEPT !.text = <<text[1]>>]>>) \o append_text(Tail(text))

\* p.text = text, line 74: the paragraph's content is replaced.
p_set_text(p, text) == [p EXCEPT !.content = append_text(text)]

RECURSIVE JoinRuns(_)
JoinRuns(content) ==
    IF content = <<>> THEN <<>>
    ELSE (IF content[1].kind = "br" THEN <<VT>> ELSE content[1].text)
         \o JoinRuns(Tail(content))

\* p.text read back: the texts of the paragraph's runs, concatenated, each
\* line break read as a vertical tab.
ParagraphText(p) == Normalize(JoinRuns(p.content))

\* The texts of the paragraphs of a shape, in order.
ShapeTexts(sh) == [j \in 1..Len(sh.paragraphs) |-> ParagraphText(sh.paragraphs[j])]

-----------------------------------------------------------------------------
(* Shapes *)

NewShape(kind, prst, x, y, w, h, tf) ==
    [kind |-> kind, prst |-> prst, left |-> x, top |-> y, width |-> w, height |-> h,
     flipH |-> FALSE, flipV |-> FALSE,
     fill |-> "inherit", line_color |-> "inherit", line_width |-> 0,
     paragraphs |-> tf, image |-> ""]

\* slide.shapes.add_shape(type, x, y, w, h): an auto shape, its text frame
\* holding one centred empty paragraph.
add_shape(prst, x, y, w, h) ==
    NewShape("autoshape", prst, x, y, w, h, <<NewParagraph("ctr")>>)

\* slide.shapes.add_textbox(x, y, w, h)
add_textbox(x, y, w, h) ==
    NewShape("textbox", "rect", x, y, w, h, <<NewParagraph("inherit")>>)

Push(slide, sh) == [slide EXCEPT !.shapes = Append(@, sh)]

Last(seq) == seq[Len(seq)]

-----------------------------------------------------------------------------
(* The helpers of the script (lines 35-125).  Each takes the slide it draws
   on and yields the slide with the new shapes appended; the box a helper
   returns is the last shape of that slide. *)

\* Mutant: the subtitle paragraph is written over the title paragraph.
add_title_overwrite(slide, title, subtitle) ==
    LET box == [add_shape("roundRect", Inches(700), Inches(600), Inches(12000), Inches(1400))
                    EXCEPT !.fill = NAVY, !.line_color = WHITE]
        tf0 == tf_clear(box.paragraphs)
        p   == p_add_run([tf0[1] EXCEPT !.alignment = "l"], title, 34, TRUE, INK)
        tf  == IF subtitle # <<>>
               THEN <<p_add_run([tf0[1] EXCEPT !.alignment = "l"], subtitle, 16, FALSE, MUTED)>>
               ELSE <<p>>
    IN  Push(slide, [box EXCEPT !.paragraphs = tf])

\* lines 35-55.  subtitle = <<>> stands for both None and the empty string
\* (line 51 tests truthiness).  fill.transparency and line.transparency
\* (lines 42, 44) are not properties of the library's fill and line objects:
\* the assignments leave the document unchanged.
add_title(slide, title, subtitle) ==
    LET box == [add_shape("roundRect", Inches(700), Inches(600), Inches(12000), Inches(1400))
                    EXCEPT !.fill = NAVY, !.line_color = WHITE]
        tf0 == tf_clear(box.paragraphs)
        p   == p_add_run([tf0[1] EXCEPT !.alignment = "l"], title, 34, TRUE, INK)
        tf  == IF subtitle # <<>>
               THEN LET tf1 == tf_add_paragraph(<<p>>)
                        p2  == p_add_run([tf1[2] EXCEPT !.alignment = "l"],
                                         subtitle, 16, FALSE, MUTED)
                    IN  <<p, p2>>
               ELSE <<p>>
    IN  Push(slide, [box EXCEPT !.paragraphs = tf])

\* Mutant: the footer is placed 0.25 inch lower, across the bottom edge.
add_footer_low(slide, text) ==
    LET box == add_textbox(Inches(700), Inches(7300), Inches(12000), Inches(300))
        tf0 == tf_clear(box.paragraphs)
        p   == p_add_run([tf0[1] EXCEPT !.alignment = "r"], text, 10, FALSE, MUTED)
    IN  Push(slide, [box EXCEPT !.paragraphs = <<p>>])

\* Mutant: the footer goes behind the shapes already on the slide.
add_footer_back(slide, text) ==
    LET box == add_textbox(Inches(700), Inches(7050), Inches(12000), Inches(300))
        tf0 == tf_clear(box.paragraphs)
        p   == p_add_run([tf0[1] EXCEPT !.alignment = "r"], text, 10, FALSE, MUTED)
    IN  [slide EXCEPT !.shapes = <<[box EXCEPT !.paragraphs = <<p>>]>> \o @]

\* lines 58-65
add_footer(slide, text) ==
    LET box == add_textbox(Inches(700), Inches(7050), Inches(12000), Inches(300))
        tf0 == tf_clear(box.paragraphs)
        p   == p_add_run([tf0[1] EXCEPT !.alignment = "r"], text, 10, FALSE, MUTED)
    IN  Push(slide, [box EXCEPT !.paragraphs = <<p>>])

\* lines 74-77: the body of the loop of add_bullets, on paragraph p
bullet_paragraph(p, it, font_size) ==
    [p_set_text(p, it) EXCEPT !.level = 0, !.font_size = Pt(font_size), !.font_color = INK]

\* lines 72-77: the loop of add_bullets from item i on (i counts from 0, as
\* enumerate does); tf is the text frame so far.
RECURSIVE bullets_loop(_, _, _, _)
bullets_loop(tf, items, i, font_size) ==
    IF i >= Len(items) THEN tf
    ELSE LET tf1 == IF i = 0 THEN tf ELSE tf_add_paragraph(tf)
             k   == IF i = 0 THEN 1 ELSE Len(tf1)
         IN  bullets_loop([tf1 EXCEPT ![k] = bullet_paragraph(@, items[i + 1], font_size)],
                          items, i + 1, font_size)

\* Mutant: every item is written to the first paragraph (line 73 without
\* its else branch).
RECURSIVE bullets_loop_first(_, _, _, _)
bullets_loop_first(tf, items, i, font_size) ==
    IF i >= Len(items) THEN tf
    ELSE bullets_loop_first([tf EXCEPT ![1] = bullet_paragraph(@, items[i + 1], font_size)],
                            items, i + 1, font_size)

add_bullets_first(slide, x, y, w, h, items, font_size) ==
    LET box == add_textbox(x, y, w, h)
    IN  Push(slide, [box EXCEPT
                       !.paragraphs = bullets_loop_first(tf_clear(@), items, 0, font_size)])

\* lines 68-78
add_bullets(slide, x, y, w, h, items, font_size) ==
    LET box == add_textbox(x, y, w, h)
    IN  Push(slide, [box EXCEPT
                       !.paragraphs = bullets_loop(tf_clear(@), items, 0, font_size)])

\* lines 81-102: the card, then its accent bar; the card's text is set last.
kpi_card(slide, x, y, w, h, heading, value, accent) ==
    LET card == [add_shape("roundRect", x, y, w, h)
                    EXCEPT !.fill = NAVY, !.line_color = WHITE]
        bar  == [add_shape("rect", x, y, Inches(100), h)
                    EXCEPT !.fill = accent, !.line_color = "nofill"]
        tf0  == tf_clear(card.paragraphs)
        p1   == p_add_run(tf0[1], heading, 12, FALSE, MUTED)
        tf1  == tf_add_paragraph(<<p1>>)
        p2   == p_add_run(tf1[2], value, 18, TRUE, INK)
    IN  Push(Push(slide, [card EXCEPT !.paragraphs = <<p1, p2>>]), bar)

\* slide.shapes.add_connector(MSO_CONNECTOR.STRAIGHT, x1, y1, x2, y2): the
\* library stores the bounding box of the two points and two flip flags.
add_connector(x1, y1, x2, y2) ==
    LET x  == IF x1 < x2 THEN x1 ELSE x2
        y  == IF y1 < y2 THEN y1 ELSE y2
        cx == IF x2 >= x1 THEN x2 - x1 ELSE x1 - x2
        cy == IF y2 >= y1 THEN y2 - y1 ELSE y1 - y2
    IN  [NewShape("connector", "line", x, y, cx, cy, <<>>)
            EXCEPT !.flipH = (x1 > x2), !.flipV = (y1 > y2)]

\* The end points of a connector, as the library reads them back.
begin_x(c) == IF c.flipH THEN c.left + c.width ELSE c.left
begin_y(c) == IF c.flipV THEN c.top + c.height ELSE c.top
end_x(c) == IF c.flipH THEN c.left ELSE c.left + c.width
end_y(c) == IF c.flipV THEN c.top ELSE c.top + c.height

\* lines 105-109
arrow(slide, x1, y1, x2, y2, color) ==
    Push(slide, [add_connector(x1, y1, x2, y2)
                    EXCEPT !.line_color = color, !.line_width = Pt(2)])

\* lines 112-125
flow_box(slide, x, y, w, h, text, accent) ==
    LET box == [add_shape("roundRect", x, y, w, h)
                    EXCEPT !.fill = NAVY, !.line_color = accent, !.line_width = Pt(2)]
        tf0 == tf_clear(box.paragraphs)
        p   == p_add_run([tf0[1] EXCEPT !.alignment = "ctr"], text, 16, TRUE, INK)
    IN  Push(slide, [box EXCEPT !.paragraphs = <<p>>])

\* slide.shapes.add_picture(path, x, y, width=w, height=h) on an image of
\* px[1] by px[2] pixels; h = 0 stands for an omitted height, which the
\* library derives from the width and the image's aspect ratio, rounded.
picture_shape(path, px, x, y, w, h) ==
    LET cy == IF h # 0 THEN h ELSE (2 * w * px[2] + px[1]) \div (2 * px[1])
    IN  [NewShape("picture", "rect", x, y, w, cy, <<>>) EXCEPT !.image = path]

-----------------------------------------------------------------------------
(* make(), lines 128-378, statement by statement.  line is the source line
   of the statement; lengths are written as in the source, in thousandths
   of an inch.  A path is given by the name of the variable that holds it
   (cover, arch, heal, OUT).  An arrow statement names the two box variables whose
   geometry its arguments read, and the form of those arguments: "right"
   for lines 180-182, 231-232, 310-311, "down" for lines 273-275. *)

Program == <<
    [op |-> "Presentation", line |-> 129],
    [op |-> "add_slide", line |-> 140],
    [op |-> "background", line |-> 141, color |-> BG],
    [op |-> "add_picture", line |-> 143, path |-> "cover", x |-> Inches(0), y |-> Inches(0),
     size |-> "slide", w |-> 0],
    [op |-> "add_title", line |-> 144, title |-> <<"Selenium Automation Framework">>,
     subtitle |-> <<"Java 17 \\u2022 TestNG \\u2022 Smart Actions \\u2022 AI Auto\\u2011Healing (Optional)">>],
    [op |-> "add_footer", line |-> 145,
     text |-> <<"Automation Assignment \\u2022 Framework Demo">>],
    [op |-> "add_slide", line |-> 148],
    [op |-> "background", line |-> 149, color |-> BG],
    [op |-> "add_title", line |-> 151, title |-> <<"What this framework delivers">>,
     subtitle |-> <<"Maintainability \\u2022 Stability \\u2022 Resilience">>],
    [op |-> "kpi_card", line |-> 152, x |-> Inches(900), y |-> Inches(2200),
     w |-> Inches(3900), h |-> Inches(1200), heading |-> <<"Stability">>,
     value |-> <<"Explicit waits">>, accent |-> C1],
    [op |-> "kpi_card", line |-> 153, x |-> Inches(900), y |-> Inches(3550),
     w |-> Inches(3900), h |-> Inches(1200), heading |-> <<"Maintainability">>,
     value |-> <<"POM + annotations">>, accent |-> C2],
    [op |-> "kpi_card", line |-> 154, x |-> Inches(900), y |-> Inches(4900),
     w |-> Inches(3900), h |-> Inches(1200), heading |-> <<"Resilience">>,
     value |-> <<"AI healing + audit">>, accent |-> C3],
    [op |-> "add_bullets", line |-> 155, x |-> Inches(900), y |-> Inches(6200),
     w |-> Inches(6200), h |-> Inches(700),
     items |-> <<<<"Low setup with Selenium Manager">>,
            <<"Centralized waits + smart actions">>,
            <<"Safety: redaction, cache, validation">>>>,
     font_size |-> 16],
    [op |-> "add_picture", line |-> 168, path |-> "arch", x |-> Inches(7100),
     y |-> Inches(2200), size |-> "width", w |-> Inches(5500)],
    [op |-> "add_footer", line |-> 169, text |-> <<"Slide 2/10">>],
    [op |-> "add_slide", line |-> 172],
    [op |-> "background", line |-> 173, color |-> BG],
    [op |-> "add_title", line |-> 175, title |-> <<"The problem we solve">>,
     subtitle |-> <<"UI changes cause fragile selectors and maintenance cost">>],
    [op |-> "flow_box", line |-> 176, var |-> "b1", x |-> Inches(1000), y |-> Inches(2700),
     w |-> Inches(2600), h |-> Inches(900), text |-> <<"UI Changes">>, accent |-> C4],
    [op |-> "flow_box", line |-> 177, var |-> "b2", x |-> Inches(4000), y |-> Inches(2700),
     w |-> Inches(2600), h |-> Inches(900), text |-> <<"Broken Selectors">>, accent |-> C2],
    [op |-> "flow_box", line |-> 178, var |-> "b3", x |-> Inches(7000), y |-> Inches(2700),
     w |-> Inches(2600), h |-> Inches(900), text |-> <<"Test Failures">>, accent |-> C1],
    [op |-> "flow_box", line |-> 179, var |-> "b4", x |-> Inches(10000), y |-> Inches(2700),
     w |-> Inches(2600), h |-> Inches(900), text |-> <<"Maintenance Cost">>, accent |-> C3],
    [op |-> "arrow", line |-> 180, from |-> "b1", to |-> "b2", dir |-> "right", color |-> MUTED],
    [op |-> "arrow", line |-> 181, from |-> "b2", to |-> "b3", dir |-> "right", color |-> MUTED],
    [op |-> "arrow", line |-> 182, from |-> "b3", to |-> "b4", dir |-> "right", color |-> MUTED],
    [op |-> "add_bullets", line |-> 183, x |-> Inches(1000), y |-> Inches(4300),
     w |-> Inches(11600), h |-> Inches(2600),
     items |-> <<<<"Flaky runs due to timing and dynamic DOM">>,
            <<"Selector churn during UI releases">>,
            <<"Boilerplate waits and locators repeated across tests">>,
            <<"Limited traceability on what changed and why">>>>,
     font_size |-> 18],
    [op |-> "add_footer", line |-> 197, text |-> <<"Slide 3/10">>],
    [op |-> "add_slide", line |-> 200],
    [op |-> "background", line |-> 201, color |-> BG],
    [op |-> "add_title", line |-> 203, title |-> <<"Architecture overview">>,
     subtitle |-> <<"Layered design with clear responsibilities">>],
    [op |-> "add_picture", line |-> 204, path |-> "arch", x |-> Inches(900),
     y |-> Inches(2200), size |-> "width", w |-> Inches(6100)],
    [op |-> "add_bullets", line |-> 205, x |-> Inches(7300), y |-> Inches(2300),
     w |-> Inches(5100), h |-> Inches(4800),
     items |-> <<<<"Tests (TestNG): call page actions">>,
            <<"Pages: business actions + @SeleniumSelector">>,
            <<"Core: waits + smart actions + element wiring">>,
            <<"AI (optional): healing with audit log">>,
            <<"Utilities: JSON + HTML cleaning">>>>,
     font_size |-> 18],
    [op |-> "add_footer", line |-> 220, text |-> <<"Slide 4/10">>],
    [op |-> "add_slide", line |-> 223],
    [op |-> "background", line |-> 224, color |-> BG],
    [op |-> "add_title", line |-> 226, title |-> <<"Core implementation">>,
     subtitle |-> <<"How the framework works under the hood">>],
    [op |-> "flow_box", line |-> 227, var |-> "cA", x |-> Inches(1000), y |-> Inches(2400),
     w |-> Inches(3700), h |-> Inches(1000),
     text |-> <<"SeleniumFactory", "\n", "(WebDriver lifecycle)">>, accent |-> C1],
    [op |-> "flow_box", line |-> 228, var |-> "cB", x |-> Inches(1000), y |-> Inches(3800),
     w |-> Inches(3700), h |-> Inches(1000),
     text |-> <<"BasePage", "\n", "(waits + smart actions)">>, accent |-> C2],
    [op |-> "flow_box", line |-> 229, var |-> "cC", x |-> Inches(5200), y |-> Inches(2400),
     w |-> Inches(3700), h |-> Inches(1000),
     text |-> <<"ElementInitializer", "\n", "(reflection wiring)">>, accent |-> C3],
    [op |-> "flow_box", line |-> 230, var |-> "cD", x |-> Inches(5200), y |-> Inches(3800),
     w |-> Inches(3700), h |-> Inches(1000),
     text |-> <<"SmartElement", "\n", "(By + driver)">>, accent |-> C4],
    [op |-> "arrow", line |-> 231, from |-> "cA", to |-> "cC", dir |-> "right", color |-> MUTED],
    [op |-> "arrow", line |-> 232, from |-> "cB", to |-> "cD", dir |-> "right", color |-> MUTED],
    [op |-> "add_bullets", line |-> 233, x |-> Inches(9300), y |-> Inches(2400),
     w |-> Inches(3900), h |-> Inches(4200),
     items |-> <<<<"Explicit waits (10s default)">>,
            <<"CSS selectors by default">>,
            <<"XPath via prefix: xpath=...">>,
            <<"Minimal boilerplate in tests">>>>,
     font_size |-> 18],
    [op |-> "add_footer", line |-> 247, text |-> <<"Slide 5/10">>],
    [op |-> "add_slide", line |-> 250],
    [op |-> "background", line |-> 251, color |-> BG],
    [op |-> "add_title", line |-> 253, title |-> <<"Smart Actions">>,
     subtitle |-> <<"Stable by default; healing only on failure">>],
    [op |-> "add_bullets", line |-> 254, x |-> Inches(900), y |-> Inches(2200),
     w |-> Inches(6300), h |-> Inches(4800),
     items |-> <<<<"smartClick(selector): wait \\u2192 click">>,
            <<"smartFill(selector, value): wait \\u2192 clear \\u2192 type">>,
            <<"On TimeoutException \\u2192 healing attempt (1 retry)">>,
            <<"StaleElementReferenceException \\u2192 retry once (no AI)">>>>,
     font_size |-> 20],
    [op |-> "flow_box", line |-> 269, var |-> "step1", x |-> Inches(7400), y |-> Inches(2300),
     w |-> Inches(5200), h |-> Inches(750), text |-> <<"Parse selector \\u2192 By">>,
     accent |-> C1],
    [op |-> "flow_box", line |-> 270, var |-> "step2", x |-> Inches(7400), y |-> Inches(3200),
     w |-> Inches(5200), h |-> Inches(750),
     text |-> <<"Explicit wait (visibility/clickable)">>, accent |-> C2],
    [op |-> "flow_box", line |-> 271, var |-> "step3", x |-> Inches(7400), y |-> Inches(4100),
     w |-> Inches(5200), h |-> Inches(750), text |-> <<"Perform action (click/type)">>,
     accent |-> C3],
    [op |-> "flow_box", line |-> 272, var |-> "step4", x |-> Inches(7400), y |-> Inches(5000),
     w |-> Inches(5200), h |-> Inches(750),
     text |-> <<"If timeout \\u2192 AI heal \\u2192 validate \\u2192 retry once">>,
     accent |-> C4],
    [op |-> "arrow", line |-> 273, from |-> "step1", to |-> "step2", dir |-> "down",
     color |-> MUTED],
    [op |-> "arrow", line |-> 274, from |-> "step2", to |-> "step3", dir |-> "down",
     color |-> MUTED],
    [op |-> "arrow", line |-> 275, from |-> "step3", to |-> "step4", dir |-> "down",
     color |-> MUTED],
    [op |-> "add_footer", line |-> 276, text |-> <<"Slide 6/10">>],
    [op |-> "add_slide", line |-> 279],
    [op |-> "background", line |-> 280, color |-> BG],
    [op |-> "add_title", line |-> 282, title |-> <<"AI Healing pipeline">>,
     subtitle |-> <<"Optional \\u2022 audited \\u2022 designed with safety guardrails">>],
    [op |-> "add_picture", line |-> 283, path |-> "heal", x |-> Inches(900),
     y |-> Inches(2200), size |-> "width", w |-> Inches(6200)],
    [op |-> "add_bullets", line |-> 284, x |-> Inches(7400), y |-> Inches(2300),
     w |-> Inches(5200), h |-> Inches(4900),
     items |-> <<<<"Trigger: action times out (TimeoutException)">>,
            <<"Capture HTML via getPageSource()">>,
            <<"Clean + redact sensitive values (best-effort)">>,
            <<"Ask LLM for replacement selector (if configured)">>,
            <<"Validate healed selector \\u2192 retry once">>,
            <<"Audit log: logs/ai-healing-audit.log">>>>,
     font_size |-> 18],
    [op |-> "add_footer", line |-> 300, text |-> <<"Slide 7/10">>],
    [op |-> "add_slide", line |-> 303],
    [op |-> "background", line |-> 304, color |-> BG],
    [op |-> "add_title", line |-> 306, title |-> <<"AI hardening (real projects)">>,
     subtitle |-> <<"Redaction \\u2022 Healing cache \\u2022 Selector validation">>],
    [op |-> "flow_box", line |-> 307, var |-> "hb1", x |-> Inches(1000), y |-> Inches(2500),
     w |-> Inches(3600), h |-> Inches(900),
     text |-> <<"Cache lookup", "\n", "healing-cache.json">>, accent |-> C3],
    [op |-> "flow_box", line |-> 308, var |-> "hb2", x |-> Inches(5000), y |-> Inches(2500),
     w |-> Inches(3600), h |-> Inches(900),
     text |-> <<"Validate selector", "\n", "(unique + actionable)">>, accent |-> C1],
    [op |-> "flow_box", line |-> 309, var |-> "hb3", x |-> Inches(9000), y |-> Inches(2500),
     w |-> Inches(3600), h |-> Inches(900),
     text |-> <<"Retry once", "\n", "(or bypass cache)">>, accent |-> C4],
    [op |-> "arrow", line |-> 310, from |-> "hb1", to |-> "hb2", dir |-> "right",
     color |-> MUTED],
    [op |-> "arrow", line |-> 311, from |-> "hb2", to |-> "hb3", dir |-> "right",
     color |-> MUTED],
    [op |-> "add_bullets", line |-> 312, x |-> Inches(1000), y |-> Inches(3800),
     w |-> Inches(11600), h |-> Inches(3000),
     items |-> <<<<"Cache reduces repeated LLM calls and speeds up healing">>,
            <<"Validation prevents wrong/stale selectors from hiding real issues">>,
            <<"If cached selector is invalid: bypass cache once and request fresh heal">>,
            <<"Override cache path: mvn test -Dhealing.cache.path=...json">>>>,
     font_size |-> 18],
    [op |-> "add_footer", line |-> 326, text |-> <<"Slide 8/10">>],
    [op |-> "add_slide", line |-> 329],
    [op |-> "background", line |-> 330, color |-> BG],
    [op |-> "add_title", line |-> 332, title |-> <<"Demo story">>,
     subtitle |-> <<"Login test flow + evidence artifacts">>],
    [op |-> "add_bullets", line |-> 333, x |-> Inches(900), y |-> Inches(2200),
     w |-> Inches(7000), h |-> Inches(4800),
     items |-> <<<<"Test creates driver via SeleniumFactory">>,
            <<"LoginPage exposes clear actions (enterUsername, enterPassword, clickLogin)">>,
            <<"Smart actions add stability and optional healing on failures">>,
            <<"Evidence: ai-healing-audit.log + healing-cache.json">>>>,
     font_size |-> 20],
    [op |-> "flow_box", line |-> 347, var |-> "cmd", x |-> Inches(8200), y |-> Inches(2600),
     w |-> Inches(4400), h |-> Inches(850), text |-> <<"Run: mvn test">>, accent |-> C2],
    [op |-> "flow_box", line |-> 348, var |-> "evid1", x |-> Inches(8200), y |-> Inches(3700),
     w |-> Inches(4400), h |-> Inches(850), text |-> <<"Audit: logs/ai-healing-audit.log">>,
     accent |-> C4],
    [op |-> "flow_box", line |-> 349, var |-> "evid2", x |-> Inches(8200), y |-> Inches(4800),
     w |-> Inches(4400), h |-> Inches(850), text |-> <<"Cache: healing-cache.json">>,
     accent |-> C3],
    [op |-> "add_footer", line |-> 350, text |-> <<"Slide 9/10">>],
    [op |-> "add_slide", line |-> 353],
    [op |-> "background", line |-> 354, color |-> BG],
    [op |-> "add_title", line |-> 356, title |-> <<"Why this framework">>,
     subtitle |-> <<"Clean \\u2022 Reliable \\u2022 Explainable \\u2022 Resilient">>],
    [op |-> "kpi_card", line |-> 357, x |-> Inches(900), y |-> Inches(2300),
     w |-> Inches(4000), h |-> Inches(1300), heading |-> <<"Clarity">>,
     value |-> <<"Page Object Model">>, accent |-> C2],
    [op |-> "kpi_card", line |-> 358, x |-> Inches(900), y |-> Inches(3750),
     w |-> Inches(4000), h |-> Inches(1300), heading |-> <<"Reliability">>,
     value |-> <<"Explicit waits">>, accent |-> C1],
    [op |-> "kpi_card", line |-> 359, x |-> Inches(900), y |-> Inches(5200),
     w |-> Inches(4000), h |-> Inches(1300), heading |-> <<"Resilience">>,
     value |-> <<"AI healing (optional)">>, accent |-> C3],
    [op |-> "add_bullets", line |-> 360, x |-> Inches(5300), y |-> Inches(2300),
     w |-> Inches(7000), h |-> Inches(4600),
     items |-> <<<<"Designed to reduce flakiness and locator maintenance">>,
            <<"AI hardening: redaction + cache + validation guardrails">>,
            <<"Audit trail provides traceability for assignments and real teams">>,
            <<"Future scope: ThreadLocal drivers, reporting, screenshots">>>>,
     font_size |-> 20],
    [op |-> "flow_box", line |-> 374, var |-> "end", x |-> Inches(5300), y |-> Inches(6300),
     w |-> Inches(7000), h |-> Inches(750), text |-> <<"Thank you \\u2014 Questions?">>,
     accent |-> C4],
    [op |-> "add_footer", line |-> 375, text |-> <<"Slide 10/10">>],
    [op |-> "save", line |-> 377, path |-> "OUT"],
    [op |-> "print", line |-> 378, prefix |-> "Created: ", path |-> "OUT"]
>>

\* The box variables that make() assigns.
BoxVars == {Program[i].var : i \in {j \in DOMAIN Program : Program[j].op = "flow_box"}}

-----------------------------------------------------------------------------
(* Files *)

Absent == [type |-> "absent", px |-> <<0, 0>>, deck |-> <<>>]
Png(px) == [type |-> "png", px |-> px, deck |-> <<>>]
Pptx(p) == [type |-> "pptx", px |-> <<0, 0>>, deck |-> <<p>>]

\* What a save that failed under way leaves at the output path: the start
\* of a package, which is no presentation.  How much of the package it
\* holds is not told apart.
Partial == [type |-> "partial", px |-> <<0, 0>>, deck |-> <<>>]

\* Pixel sizes an asset file may have.
ImageSizes == {<<16, 9>>, <<4, 3>>}

\* Presentation(): the library's default template, 10 x 7.5 inches, no slide.
DefaultPresentation ==
    [slide_width |-> Inches(10000), slide_height |-> Inches(7500), slides |-> <<>>]

\* An output file left by something else than this script.
OldDeck == Pptx(DefaultPresentation)

NoPrs == [slide_width |-> 0, slide_height |-> 0, slides |-> <<>>]

NewSlide == [background |-> "inherit", shapes |-> <<>>]

\* The asset files as a run finds them.
Assets == [a \in AssetPaths |-> fs[a]]

-----------------------------------------------------------------------------
(* Initial state: the script is about to run for the first time.  Each asset
   is absent or an image of one of the sizes, the output path is absent or
   holds an older file, and may or may not be writable. *)

Init ==
    /\ run = 1
    /\ pc = 1
    /\ outcome = "running"
    /\ error = "none"
    /\ prs = NoPrs
    /\ s = 0
    /\ locals = [v \in BoxVars |-> <<0, 0>>]
    /\ ROOT \in Roots
    /\ fs \in {f \in [Paths -> {Absent, OldDeck} \cup {Png(px) : px \in ImageSizes}] :
                 /\ \A a \in AssetPaths : f[a].type \in {"absent", "png"}
                 /\ f[OUT].type \in {"absent", "pptx"}}
    /\ writable \in BOOLEAN
    /\ stdout = <<>>
    /\ writes = 0
    /\ out_before = fs[OUT]
    /\ saved = <<>>

-----------------------------------------------------------------------------
(* Control *)

Stmt == Program[pc]

At(op) == outcome = "running" /\ pc \in DOMAIN Program /\ Stmt.op = op

\* The statement completes; make() returns after its last statement.
Advance ==
    /\ pc' = pc + 1
    /\ outcome' = IF pc + 1 > Len(Program) THEN "done" ELSE "running"
    /\ error' = error

\* Mutant: the exception is caught and the script goes on with the next
\* statement.
RaiseCaught(exc) ==
    /\ error' = exc
    /\ pc' = pc + 1
    /\ outcome' = IF pc + 1 > Len(Program) THEN "done" ELSE "running"
    /\ UNCHANGED <<ROOT, run, prs, s, locals, writable, stdout, out_before, saved>>

\* The statement raises.  make() has no try statement and neither has its
\* caller (line 382): the exception ends the run where it is.  What the
\* failing statement did to the files before it raised is stated with it.
Raise(exc) ==
    /\ error' = exc
    /\ outcome' = "aborted"
    /\ UNCHANGED <<ROOT, run, pc, prs, s, locals, writable, stdout, out_before, saved>>

\* The statement draws on the slide that s names.
Draw(slide) ==
    /\ prs' = [prs EXCEPT !.slides[s] = slide]
    /\ Advance
    /\ UNCHANGED <<ROOT, run, s, fs, writable, stdout, writes, out_before, saved>>

-----------------------------------------------------------------------------
(* The statements of make() *)

\* Mutant: the output file, when there is one, is opened and extended.
PresentationFromOutput ==
    IF fs[OUT].type = "pptx" THEN fs[OUT].deck[1] ELSE DefaultPresentation

\* line 129
Presentation == DefaultPresentation

\* lines 129-137: a new presentation, resized to 13.333 x 7.5 inches
NewPresentation ==
    /\ At("Presentation")
    /\ prs' = [Presentation EXCEPT !.slide_width = Inches(13333),
                                   !.slide_height = Inches(7500)]
    /\ Advance
    /\ UNCHANGED <<ROOT, run, s, locals, fs, writable, stdout, writes, out_before, saved>>

\* Mutant: the slide is added but s keeps naming the slide before it
\* (on the first slide there is none before).
bind_slide_stale(n) == IF n = 1 THEN 1 ELSE s

\* s = ...: the variable names the slide just added, the n-th.
bind_slide(n) == n

\* s = prs.slides.add_slide(blank), lines 140, 148, ...
AddSlide ==
    /\ At("add_slide")
    /\ prs' = [prs EXCEPT !.slides = Append(@, NewSlide)]
    /\ s' = bind_slide(Len(prs.slides) + 1)
    /\ Advance
    /\ UNCHANGED <<ROOT, run, locals, fs, writable, stdout, writes, out_before, saved>>

\* s.background.fill.solid(); s.background.fill.fore_color.rgb = BG
SetBackground ==
    /\ At("background")
    /\ Draw([prs.slides[s] EXCEPT !.background = Stmt.color])
    /\ UNCHANGED locals

\* Mutant: a missing image is replaced by a one-pixel placeholder.
open_image_placeholder(path) ==
    IF fs[path].type = "png" THEN fs[path] ELSE Png(<<1, 1>>)

\* The image file that add_picture opens.
open_image(path) == fs[path]

\* s.shapes.add_picture(str(path), x, y, width=w[, height=h]): line 143
\* gives the slide's width and height (size "slide"), lines 168, 204, 283
\* give a width only (size "width").  Opening a missing file raises.
AddPicture ==
    /\ At("add_picture")
    /\ LET img == open_image(PathOf(Stmt.path))
           w   == IF Stmt.size = "slide" THEN prs.slide_width ELSE Stmt.w
           h   == IF Stmt.size = "slide" THEN prs.slide_height ELSE 0
       IN  IF img.type = "absent"
           THEN Raise("FileNotFoundError") /\ UNCHANGED <<fs, writes>>
           ELSE /\ Draw(Push(prs.slides[s],
                             picture_shape(PathOf(Stmt.path), img.px, Stmt.x, Stmt.y, w, h)))
                /\ UNCHANGED locals

AddTitle ==
    /\ At("add_title")
    /\ Draw(add_title(prs.slides[s], Stmt.title, Stmt.subtitle))
    /\ UNCHANGED locals

\* Mutant: the deck is saved each time a slide is finished.
AddFooterAndSave ==
    /\ At("add_footer")
    /\ LET deck == [prs EXCEPT !.slides[s] = add_footer(prs.slides[s], Stmt.text)]
       IN  IF writable
           THEN /\ prs' = deck
                /\ fs' = [fs EXCEPT ![OUT] = Pptx(deck)]
                /\ writes' = writes + 1
                /\ saved' = Append(saved, [deck |-> deck, assets |-> Assets])
                /\ Advance
                /\ UNCHANGED <<ROOT, run, s, locals, writable, stdout, out_before>>
           ELSE Raise("PermissionError") /\ UNCHANGED <<fs, writes>>

\* add_footer(s, text), lines 145, 169, ...
AddFooter ==
    /\ At("add_footer")
    /\ Draw(add_footer(prs.slides[s], Stmt.text))
    /\ UNCHANGED locals

KpiCard ==
    /\ At("kpi_card")
    /\ Draw(kpi_card(prs.slides[s], Stmt.x, Stmt.y, Stmt.w, Stmt.h,
                     Stmt.heading, Stmt.value, Stmt.accent))
    /\ UNCHANGED locals

AddBullets ==
    /\ At("add_bullets")
    /\ Draw(add_bullets(prs.slides[s], Stmt.x, Stmt.y, Stmt.w, Stmt.h,
                        Stmt.items, Stmt.font_size))
    /\ UNCHANGED locals

\* var = flow_box(s, ...): the variable names the box just added.
FlowBox ==
    /\ At("flow_box")
    /\ LET slide == flow_box(prs.slides[s], Stmt.x, Stmt.y, Stmt.w, Stmt.h,
                             Stmt.text, Stmt.accent)
       IN  /\ Draw(slide)
           /\ locals' = [locals EXCEPT ![Stmt.var] = <<s, Len(slide.shapes)>>]

\* The shape a box variable names.
Box(var) == prs.slides[locals[var][1]].shapes[locals[var][2]]

\* Mutant: the start point is taken at the corner of the first box
\* (the division by two forgotten).
arrow_points_corner(A, B, dir) ==
    IF dir = "right"
    THEN <<A.left + A.width, A.top + A.height, B.left, B.top + B.height \div 2>>
    ELSE <<A.left + A.width, A.top + A.height, B.left + B.width \div 2, B.top>>

\* The arguments x1, y1, x2, y2 of an arrow from box A to box B.  The
\* halves are exact: they are floats in the source, stored as integers.
arrow_points(A, B, dir) ==
    IF dir = "right"
    THEN <<A.left + A.width, A.top + A.height \div 2, B.left, B.top + B.height \div 2>>
    ELSE <<A.left + A.width \div 2, A.top + A.height, B.left + B.width \div 2, B.top>>

Arrow ==
    /\ At("arrow")
    /\ LET pts == arrow_points(Box(Stmt.from), Box(Stmt.to), Stmt.dir)
       IN  Draw(arrow(prs.slides[s], pts[1], pts[2], pts[3], pts[4], Stmt.color))
    /\ UNCHANGED locals

\* prs.save(str(OUT)), line 377.  The library opens the file for writing,
\* which empties it, then writes the parts of the package one by one and
\* closes it.
\*   - The open fails when the path is not writable: nothing is written.
\*   - A write fails after the open (the device is full, an I/O error):
\*     the file is left with part of the package, and what it held before
\*     is lost.
\*   - Otherwise the file holds the deck.
\* complete tells the last two apart.
Save ==
    /\ At("save")
    /\ IF ~writable
       THEN Raise("PermissionError") /\ UNCHANGED <<fs, writes>>
       ELSE \E complete \in BOOLEAN :
               IF complete
               THEN /\ fs' = [fs EXCEPT ![PathOf(Stmt.path)] = Pptx(prs)]
                    /\ writes' = writes + 1
                    /\ saved' = Append(saved, [deck |-> prs, assets |-> Assets])
                    /\ Advance
                    /\ UNCHANGED <<ROOT, run, prs, s, locals, writable, stdout, out_before>>
               ELSE /\ fs' = [fs EXCEPT ![PathOf(Stmt.path)] = Partial]
                    /\ writes' = writes + 1
                    /\ Raise("OSError")

\* print(f"Created: {OUT}"), line 378
PrintCreated ==
    /\ At("print")
    /\ stdout' = Append(stdout, Stmt.prefix \o PathOf(Stmt.path))
    /\ Advance
    /\ UNCHANGED <<ROOT, run, prs, s, locals, fs, writable, writes, out_before, saved>>

\* The script is started again.  The output path is as the run before left
\* it.  The asset files that exist may have been replaced in between by
\* other images: f is the files the new run finds.
RunAgain ==
    /\ outcome \in {"done", "aborted"}
    /\ run < MaxRuns
    /\ run' = run + 1
    /\ pc' = 1
    /\ outcome' = "running"
    /\ error' = "none"
    /\ prs' = NoPrs
    /\ s' = 0
    /\ locals' = [v \in BoxVars |-> <<0, 0>>]
    /\ stdout' = <<>>
    /\ writes' = 0
    /\ \E f \in [Paths -> {fs[OUT]} \cup {Absent} \cup {Png(px) : px \in ImageSizes}] :
          /\ f[OUT] = fs[OUT]
          /\ \A a \in AssetPaths : (f[a].type = "png") = (fs[a].type = "png")
          /\ \A a \in AssetPaths : f[a].type \in {"absent", "png"}
          /\ fs' = f
    /\ out_before' = fs[OUT]
    /\ UNCHANGED <<ROOT, writable, saved>>

Next ==
    \/ NewPresentation
    \/ AddSlide
    \/ SetBackground
    \/ AddPicture
    \/ AddTitle
    \/ AddFooter
    \/ KpiCard
    \/ AddBullets
    \/ FlowBox
    \/ Arrow
    \/ Save
    \/ PrintCreated
    \/ RunAgain

Spec == Init /\ [][Next]_vars

-----------------------------------------------------------------------------
(* Vocabulary of the properties *)

\* Index of the save statement in make().
SaveAt == CHOOSE i \in DOMAIN Program : Program[i].op = "save"

\* The run has executed every statement before the save.
ReachedSave == pc >= SaveAt

\* The statements this run has executed.
Executed == 1..(pc - 1)

\* The slide that statement i draws on: the number of add_slide statements
\* up to it.
SlideOf == [i \in DOMAIN Program |->
               Cardinality({j \in 1..i : Program[j].op = "add_slide"})]

FirstRun(sh) == sh.paragraphs[1].content[1]

HasText(sh) ==
    /\ sh.kind \in {"autoshape", "textbox"}
    /\ \E j \in DOMAIN sh.paragraphs : sh.paragraphs[j].content # <<>>

\* A title block: a rounded rectangle headed by a bold 34 pt run.
IsTitleBlock(sh) ==
    /\ HasText(sh) /\ sh.kind = "autoshape" /\ sh.prst = "roundRect"
    /\ sh.paragraphs[1].content # <<>>
    /\ FirstRun(sh).kind = "r"
    /\ FirstRun(sh).size = Pt(34) /\ FirstRun(sh).bold = "True"

\* A footer: a text box of one right-aligned 10 pt paragraph.
IsFooter(sh) ==
    /\ HasText(sh) /\ sh.kind = "textbox"
    /\ Len(sh.paragraphs) = 1
    /\ sh.paragraphs[1].alignment = "r"
    /\ sh.paragraphs[1].content # <<>>
    /\ FirstRun(sh).kind = "r"
    /\ FirstRun(sh).size = Pt(10)

\* A flow box: a rounded rectangle with a 2 pt outline.
IsFlowBox(sh) ==
    sh.kind = "autoshape" /\ sh.prst = "roundRect" /\ sh.line_width = Pt(2)

IsConnector(sh) == sh.kind = "connector"

Slides == prs.slides

TitleBlocks(k) == SelectSeq(Slides[k].shapes, IsTitleBlock)
Footers(k) == SelectSeq(Slides[k].shapes, IsFooter)
Connectors(k) == SelectSeq(Slides[k].shapes, IsConnector)

\* The ten titles, in deck order.
Titles == <<
    "Selenium Automation Framework",
    "What this framework delivers",
    "The problem we solve",
    "Architecture overview",
    "Core implementation",
    "Smart Actions",
    "AI Healing pipeline",
    "AI hardening (real projects)",
    "Demo story",
    "Why this framework">>

MissingAssets == {a \in AssetPaths : fs[a].type = "absent"}

\* The confirmation line: it names the output file by its absolute path.
Confirmation == "Created: " \o OUT

-----------------------------------------------------------------------------
(* C1 *)

\* C1: when make() reaches the save step the presentation holds exactly ten
\* slides, each with exactly one title block, and the title block of the
\* k-th slide carries the k-th of the ten fixed titles.
C1_TenTitledSlides ==
    ReachedSave =>
        /\ Len(Slides) = Len(Titles)
        /\ \A k \in DOMAIN Slides :
              /\ Len(TitleBlocks(k)) = 1
              /\ ParagraphText(TitleBlocks(k)[1].paragraphs[1]) = Str(Titles[k])

\* make() stands at the save statement.
C1_AtSave == At("save") /\ Len(Slides) = 10

-----------------------------------------------------------------------------
(* C2 *)

\* C2: whenever some of the three image assets is missing, the run never
\* gets past an add_picture of a missing file, which precedes the save: the
\* save is not executed, nothing is written or printed, the output path
\* holds what it held when the run started, and the run can only end in a
\* FileNotFoundError raised by add_picture.  Every asset is used by some
\* add_picture before the save.
C2_MissingAssetNoSave ==
    /\ \A a \in AssetPaths :
          \E i \in 1..(SaveAt - 1) :
             Program[i].op = "add_picture" /\ PathOf(Program[i].path) = a
    /\ MissingAssets # {} =>
          /\ pc < SaveAt
          /\ \A i \in Executed :
                Program[i].op = "add_picture" => PathOf(Program[i].path) \notin MissingAssets
          /\ writes = 0
          /\ stdout = <<>>
          /\ fs[OUT] = out_before
          /\ outcome # "done"
          /\ outcome = "aborted" =>
                /\ error = "FileNotFoundError"
                /\ Stmt.op = "add_picture"
                /\ PathOf(Stmt.path) \in MissingAssets

\* The last asset used is the only one missing, an output file exists, and
\* the run has failed at slide 7.
C2_FailedOnLastAsset ==
    /\ MissingAssets = {heal}
    /\ outcome = "aborted"
    /\ Len(Slides) = 7
    /\ fs[OUT].type = "pptx"

-----------------------------------------------------------------------------
(* C3 *)

\* C3 as first stated: a run ends saved and confirmed, or aborted with
\* nothing written, whichever statement failed, the save included.
C3_AbortedWithNothingWritten ==
    /\ outcome \in {"running", "done", "aborted"}
    /\ outcome = "running" => pc \in DOMAIN Program
    /\ error # "none" =>
          /\ outcome = "aborted"
          /\ writes = 0
          /\ stdout = <<>>
          /\ fs[OUT] = out_before
    /\ outcome = "aborted" => error # "none"
    /\ outcome = "done" =>
          /\ error = "none"
          /\ writes = 1
          /\ stdout = <<Confirmation>>
          /\ fs[OUT] = Pptx(prs)

\* The save has failed after it opened the output file.
SaveBrokeOff == outcome = "aborted" /\ Stmt.op = "save" /\ error = "OSError"

\* The three ways a run ends: saved and confirmed; aborted with nothing
\* written; aborted by a save that broke off, with part of a package at
\* the output path.  Only the save can fail after writing.
C3_Outcomes ==
    /\ outcome \in {"running", "done", "aborted"}
    /\ outcome = "running" => pc \in DOMAIN Program
    /\ error # "none" =>
          /\ outcome = "aborted"
          /\ stdout = <<>>
          /\ IF SaveBrokeOff
             THEN /\ writes = 1
                  /\ fs[OUT] = Partial
                  /\ Len(Slides) = 10
             ELSE /\ writes = 0
                  /\ fs[OUT] = out_before
                  /\ error \in {"FileNotFoundError", "PermissionError"}
                  /\ error = "FileNotFoundError" <=> Stmt.op = "add_picture"
                  /\ error = "PermissionError" <=> Stmt.op = "save"
    /\ outcome = "aborted" => error # "none"
    /\ outcome = "done" =>
          /\ error = "none"
          /\ writes = 1
          /\ stdout = <<Confirmation>>
          /\ fs[OUT] = Pptx(prs)

C3_NothingAfterFailure ==
    (error # "none" /\ run' = run) =>
        /\ pc' = pc
        /\ prs' = prs
        /\ fs' = fs
        /\ stdout' = stdout
        /\ writes' = writes

\* C3, as amended: no failure is caught or retried.  Once a statement of
\* make() has raised, the run is aborted and no later statement runs: no
\* shape is added, nothing is saved, nothing is printed.  A run ends saved
\* and confirmed, or aborted with the output path as it was, or, when the
\* save fails after opening the output file, aborted with an incomplete
\* file at the output path.
C3_FailureAborts == []C3_Outcomes /\ [][C3_NothingAfterFailure]_vars

\* All ten slides are built and the save has failed under way: the older
\* file at the output path is lost.
C3_SaveFailed ==
    /\ SaveBrokeOff
    /\ Len(Slides) = 10
    /\ out_before = OldDeck
    /\ fs[OUT] = Partial

-----------------------------------------------------------------------------
(* C4 *)

\* Connector c is an arrow from the middle of the right edge of A to the
\* middle of the left edge of B.
LinksRight(c, A, B) ==
    /\ begin_x(c) = A.left + A.width
    /\ 2 * (begin_y(c) - A.top) = A.height
    /\ end_x(c) = B.left
    /\ 2 * (end_y(c) - B.top) = B.height
    /\ B.top <= end_y(c) /\ end_y(c) <= B.top + B.height

\* Connector c is an arrow from the middle of the bottom edge of A to the
\* middle of the top edge of B.
LinksDown(c, A, B) ==
    /\ 2 * (begin_x(c) - A.left) = A.width
    /\ begin_y(c) = A.top + A.height
    /\ 2 * (end_x(c) - B.left) = B.width
    /\ end_y(c) = B.top
    /\ B.left <= end_x(c) /\ end_x(c) <= B.left + B.width

\* Every connector links two distinct flow boxes of its slide, edge
\* midpoint to edge midpoint: downwards on slide 6, rightwards elsewhere.
ConnectorsLinkBoxes ==
    \A k \in DOMAIN Slides :
       \A n \in DOMAIN Slides[k].shapes :
          LET c == Slides[k].shapes[n]
          IN  IsConnector(c) =>
                 \E a, b \in DOMAIN Slides[k].shapes :
                    /\ a # b
                    /\ IsFlowBox(Slides[k].shapes[a])
                    /\ IsFlowBox(Slides[k].shapes[b])
                    /\ IF k = 6
                       THEN LinksDown(c, Slides[k].shapes[a], Slides[k].shapes[b])
                       ELSE LinksRight(c, Slides[k].shapes[a], Slides[k].shapes[b])

\* The finished deck has counts[k] connectors on slide k.
ConnectorCounts(counts) ==
    ReachedSave => \A k \in DOMAIN Slides : Len(Connectors(k)) = counts[k]

\* C4, as amended: every connector has both end points on the boundary of
\* the two flow boxes it links, at the edge midpoints; the finished deck has
\* 3 connectors on slide 3, 2 on slide 5, 3 on slide 6 and 2 on slide 8,
\* none elsewhere.
C4_ConnectorsOnBoxEdges ==
    ConnectorsLinkBoxes /\ ConnectorCounts(<<0, 0, 3, 0, 2, 3, 0, 2, 0, 0>>)

\* C4, as stated: the same with 3 connectors on slide 8.
C4_ThreeConnectorsOnSlide8 ==
    ConnectorsLinkBoxes /\ ConnectorCounts(<<0, 0, 3, 0, 2, 3, 0, 3, 0, 0>>)

\* Slide 6 carries its three downward arrows and slide 8 its two.
C4_ArrowsDrawn ==
    /\ Len(Slides) >= 8
    /\ Len(Connectors(6)) = 3
    /\ Len(Connectors(8)) = 2

-----------------------------------------------------------------------------
(* C5 *)

TextOps == {"add_title", "add_footer", "add_bullets", "kpi_card", "flow_box"}

\* The paragraphs that statement i passes to its slide.
StepTexts(i) ==
    LET st == Program[i]
    IN  CASE st.op = "add_title" ->
                IF st.subtitle # <<>> THEN <<st.title, st.subtitle>> ELSE <<st.title>>
          [] st.op = "add_footer" -> <<st.text>>
          [] st.op = "add_bullets" -> st.items
          [] st.op = "kpi_card" -> <<st.heading, st.value>>
          [] st.op = "flow_box" -> <<st.text>>

\* The executed text statements of slide k, in order.
TextSteps(k) ==
    SelectSeq([i \in Executed |-> i],
              LAMBDA i : Program[i].op \in TextOps /\ SlideOf[i] = k)

\* The shapes of slide k that hold text, in order.
TextShapes(k) == SelectSeq(Slides[k].shapes, HasText)

\* C5: on every slide, the text-bearing shapes are, in order, those of the
\* text statements executed on it, and the paragraphs of each are exactly
\* the strings passed: the items of add_bullets one per paragraph in the
\* given order, the title then the subtitle of add_title.  Every title
\* block has exactly two paragraphs.
C5_TextVerbatim ==
    \A k \in DOMAIN Slides :
       LET shapes == TextShapes(k)
           steps  == TextSteps(k)
           blocks == TitleBlocks(k)
       IN  /\ Len(shapes) = Len(steps)
           /\ \A j \in DOMAIN shapes : ShapeTexts(shapes[j]) = StepTexts(steps[j])
           /\ \A j \in DOMAIN blocks : Len(blocks[j].paragraphs) = 2

\* The six-item bullet list of slide 7 has been drawn.
C5_BulletsDrawn ==
    /\ Len(Slides) = 7
    /\ \E n \in DOMAIN Slides[7].shapes :
          Slides[7].shapes[n].kind = "textbox" /\ Len(Slides[7].shapes[n].paragraphs) = 6

-----------------------------------------------------------------------------
(* C6 *)

\* Which of the asset files exist.
Present(assets) == {a \in DOMAIN assets : assets[a].type = "png"}

\* Shapes a and b differ at most by the height of a picture.
SameButPictureHeight(a, b) ==
    /\ [a EXCEPT !.height = 0] = [b EXCEPT !.height = 0]
    /\ a.kind # "picture" => a.height = b.height

\* Decks d and e have the same slide size and number of slides, and on
\* every slide the same background and the same shapes in the same order,
\* with the same kind, position, width and text; the heights are the same
\* but for the pictures.
SameLayout(d, e) ==
    /\ d.slide_width = e.slide_width
    /\ d.slide_height = e.slide_height
    /\ Len(d.slides) = Len(e.slides)
    /\ \A k \in DOMAIN d.slides :
          /\ d.slides[k].background = e.slides[k].background
          /\ Len(d.slides[k].shapes) = Len(e.slides[k].shapes)
          /\ \A n \in DOMAIN d.slides[k].shapes :
                SameButPictureHeight(d.slides[k].shapes[n], e.slides[k].shapes[n])

-----------------------------------------------------------------------------
(* C7 *)

C7_Order ==
    /\ writes <= 1
    /\ \A i \in DOMAIN Program : i > SaveAt => Program[i].op = "print"
    /\ writes = 1 =>
          /\ pc >= SaveAt
          /\ Len(Slides) = 10
    /\ (writes = 1 /\ error = "none") =>
          /\ pc > SaveAt
          /\ fs[OUT] = Pptx(prs)
          /\ Last(saved).deck = prs
    /\ writes = 0 => fs[OUT] = out_before
    /\ Len(stdout) <= 1
    /\ stdout # <<>> => stdout = <<Confirmation>> /\ writes = 1
    /\ outcome = "done" => writes = 1 /\ Len(stdout) = 1

\* A step of a run changes no file but the output file, and that one only
\* at the save.  Between two runs the asset files may be replaced, which is
\* no step of the script; the output file is not touched then either.
C7_OnlyOutputWritten ==
    /\ run' = run => \A p \in AssetPaths : fs'[p] = fs[p]
    /\ fs'[OUT] # fs[OUT] => At("save") /\ Len(Slides) = 10 /\ prs' = prs

\* C7: a successful run writes the output file exactly once, at the fixed
\* path and no other, when all ten slides are built, and prints the
\* confirmation exactly once, after the save; the saved deck is the final
\* in-memory deck, so nothing is drawn after the save.
C7_SaveOnceThenConfirm == []C7_Order /\ [][C7_OnlyOutputWritten]_vars

\* A run over an existing output file has saved and confirmed.
C7_Confirmed ==
    outcome = "done" /\ stdout = <<Confirmation>> /\ out_before.type = "pptx"

-----------------------------------------------------------------------------
(* C8 *)

IsPrefix(a, b) == Len(a) <= Len(b) /\ \A i \in DOMAIN a : a[i] = b[i]

C8_CurrentSlide ==
    /\ s = Len(Slides)
    /\ \A k \in DOMAIN Slides :
          Slides[k].shapes # <<>> => Slides[k].background # "inherit"

C8_OneSlideAtATime ==
    run' = run =>
        LET n == Len(Slides)
            m == Len(prs'.slides)
        IN  /\ m \in {n, n + 1}
            /\ \A k \in 1..(n - 1) : prs'.slides[k] = Slides[k]
            /\ (m = n + 1) =>
                  /\ n >= 1 => prs'.slides[n] = Slides[n]
                  /\ prs'.slides[m] = NewSlide
            /\ (m = n /\ n >= 1) =>
                  /\ IsPrefix(Slides[n].shapes, prs'.slides[n].shapes)
                  /\ prs'.slides[n].background # Slides[n].background =>
                        Slides[n].shapes = <<>>

\* C8: slides are built one after another.  s names the slide created
\* last, a slide has its background before it has a shape, every step
\* leaves the slides before the last one as they are, and only appends
\* shapes to the last one.
C8_SlidesBuiltInOrder == []C8_CurrentSlide /\ [][C8_OneSlideAtATime]_vars

\* Slide 2 is being filled while slide 1 is complete.
C8_SecondSlideUnderWay ==
    Len(Slides) = 2 /\ Len(Slides[2].shapes) >= 3 /\ Len(Footers(1)) = 1

-----------------------------------------------------------------------------
(* C9 *)

OnSlide(sh) ==
    /\ 0 <= sh.left /\ sh.left + sh.width <= prs.slide_width
    /\ 0 <= sh.top /\ sh.top + sh.height <= prs.slide_height

\* C9: the slide is 13.333 x 7.5 inches, and every auto shape and text box
\* (title blocks, footers, bullet boxes, cards, accent bars, flow boxes)
\* and both end points of every connector lie inside it.
C9_ShapesOnSlide ==
    Slides # <<>> =>
        /\ prs.slide_width = 12191695
        /\ prs.slide_height = 6858000
        /\ \A k \in DOMAIN Slides :
              \A n \in DOMAIN Slides[k].shapes :
                 LET sh == Slides[k].shapes[n]
                 IN  /\ sh.kind \in {"autoshape", "textbox"} => OnSlide(sh)
                     /\ IsConnector(sh) =>
                           /\ OnSlide(sh)
                           /\ 0 <= begin_x(sh) /\ begin_x(sh) <= prs.slide_width
                           /\ 0 <= end_x(sh) /\ end_x(sh) <= prs.slide_width
                           /\ 0 <= begin_y(sh) /\ begin_y(sh) <= prs.slide_height
                           /\ 0 <= end_y(sh) /\ end_y(sh) <= prs.slide_height

\* The last flow box of slide 10, the lowest box of the deck, is drawn.
C9_LowestBoxDrawn ==
    /\ Len(Slides) = 10
    /\ \E n \in DOMAIN Slides[10].shapes :
          IsFlowBox(Slides[10].shapes[n]) /\ Slides[10].shapes[n].top = Inches(6300)

-----------------------------------------------------------------------------
(* C10 *)

\* C10: in the finished deck every slide has exactly one footer, which is
\* its last shape, and from the second slide on the footer of the k-th
\* slide reads "Slide k/n", n being the number of slides, ten.
C10_FooterNumbers ==
    ReachedSave =>
        /\ Len(Slides) = 10
        /\ \A k \in DOMAIN Slides :
              /\ Len(Footers(k)) = 1
              /\ IsFooter(Last(Slides[k].shapes))
              /\ k >= 2 =>
                    ShapeTexts(Last(Slides[k].shapes))
                       = <<Str("Slide " \o ToString(k) \o "/" \o ToString(Len(Slides)))>>

\* The deck is saved with its tenth footer in place.
C10_DeckSaved ==
    writes = 1 /\ ShapeTexts(Last(Slides[10].shapes)) = <<Str("Slide 10/10")>>

=============================================================================
